---- MODULE Spec2Model ----
(***************************************************************************)
(* Payment & balance consistency engine of the escrow bot.                 *)
(*                                                                         *)
(* The state is the SQLite database (tables users and payments), a clock,  *)
(* and the call frames of the threads that work on the database: worker    *)
(* threads (webhook deliveries, invoice creation, admin commands, direct   *)
(* ledger calls) and the payment monitor thread.                           *)
(*                                                                         *)
(* Amounts are fixed-point integers.  Time is counted in hours.            *)
(*                                                                         *)
(* Every function of db.py opens its own connection.  A function that      *)
(* runs BEGIN TRANSACTION; SELECT; UPDATE/INSERT; COMMIT is modelled in    *)
(* two steps, the read and the write.  SQLite locks the whole database: a  *)
(* connection that has read inside a transaction and then finds that       *)
(* another connection wrote gets "database is locked" on its own write,    *)
(* which the code turns into ROLLBACK and return False.                    *)
(***************************************************************************)
EXTENDS Integers, Sequences, FiniteSets, TLC

\* ------------------------------------------------------------------ bounds
MaxDeliveries == 2      \* webhook deliveries started in one concurrent run
SeqDeliveries == 3      \* webhook deliveries started in one sequential run
MaxCycles     == 1      \* monitor cycles and forced checks started in one run
MaxInvoices   == 1      \* add_payment calls started in one run
MaxCalls      == 3      \* direct update_balance calls started in one run
MaxTicks      == 2      \* clock advances in one run
MaxAdds       == 2      \* add_payment calls started in one run of racing invoices
MaxWithdrawals == 2     \* withdrawal requests started in one run; rows of withdrawal_history
MaxDeals      == 2      \* deal creations started in one run; rows of deals
MaxCredits    == 1      \* deposits credited in one run of withdrawals or deals
MaxDecisions  == 2      \* admin decisions and status changes started in one run
MaxSwitches   == 3      \* start() and stop() calls in one run
MaxLookups    == 2      \* get_user calls started in one run

\* ------------------------------------------------------- program constants
ExpiryHours  == 24      \* timedelta(hours=24)
ArchiveDays  == 30      \* timedelta(days=30)
MinWithdrawal == 5      \* validate_amount(message.text, 5)
MinDealAmount == 1      \* validate_amount(message.text, 1, int(MAX_DEAL_AMOUNT))
MaxDealAmount == 10000  \* config.MAX_DEAL_AMOUNT; the value is configuration

\* ------------------------------------------------------------- input sets
Workers    == {"t1", "t2"}
Monitor    == "mon"
Monitor2   == "mon2"
LoopThreads == {Monitor, Monitor2}   \* the threads start() may create
Admin      == "adm"
Threads    == Workers \cup LoopThreads \cup {Admin}
UserIds    == {1, 2}
PaymentIds == {"p1", "p2"}
Amounts    == {0, 50}            \* amounts offered to add_payment
Deltas     == {-50, 50}          \* deltas offered to update_balance
TickHours  == {25, 721}          \* just over a day, just over thirty days
WithdrawalIds == 1..MaxWithdrawals    \* withdrawal_history.id, AUTOINCREMENT
DealIds       == 1..MaxDeals          \* deals.id, AUTOINCREMENT
Requests      == {50, 100}       \* amounts asked for in withdrawals and deals
DealStatuses  == {"waiting", "active", "completed", "cancelled", "disputed"}
Resolutions   == {"refund_buyer", "pay_seller", "split"}   \* "split" is not a resolution
Sellers       == {"@s1", "@s2"}  \* seller_username
Descriptions  == {"d1", "d2"}    \* description

valid_statuses == {"pending", "confirming", "confirmed", "failed", "cancelled", "expired"}
TerminalStatuses == {"confirmed", "failed", "cancelled", "expired"}
\* what the processor reports; "finished" is one of its statuses that the
\* store does not know
ReportedStatuses == {"confirming", "confirmed", "failed", "finished"}
RemoteResponses  == ReportedStatuses \cup {"error"}

VARIABLES
    users,      \* user ids that have a row in table users
    balance,    \* users.balance, 0 where there is no row
    payments,   \* table payments, by payment_id
    clock,      \* now, in hours
    th,         \* the call frame of every thread
    credited,   \* history: amount credited on behalf of each payment
    applied,    \* history: sum of the deltas of the update_balance calls that returned True
    used,       \* history: how much of each bound the run has used
    withdrawals,\* table withdrawal_history, by id
    deals,      \* table deals, by id
    monitor     \* the PaymentMonitor object: its running flag, and where each
                \* loop thread is, in the specifications with start() and stop()

vars == <<users, balance, payments, clock, th, credited, applied, used, withdrawals, deals,
          monitor>>

\* refunded in a row of withdrawal_history or deals is history: how many
\* times update_balance has paid the amount of the row back
NoWithdrawal == [present |-> FALSE, user_id |-> 0, amount |-> 0, status |-> "",
                 refunded |-> 0]

NoDeal == [present |-> FALSE, buyer_id |-> 0, seller_username |-> "", description |-> "",
           amount |-> 0, status |-> "", completed_at |-> -1, refunded |-> 0]

NoRow == [present |-> FALSE, payment_id |-> "", user_id |-> 0, amount |-> 0,
          status |-> "", created_at |-> 0, updated_at |-> 0]

Idle == [op |-> "idle", pc |-> "idle", payment_id |-> "", status |-> "",
         existing |-> NoRow, uid |-> 0, amount |-> 0, cur |-> 0,
         txn |-> "none", batch |-> <<>>, ret |-> "none", note |-> "",
         key |-> 0, rec |-> NoRow, arg |-> "", got |-> "none", attempt |-> 0]

Truthy(x) == x # 0

Init ==
    /\ users = {}
    /\ balance = [u \in UserIds |-> 0]
    /\ payments = [p \in PaymentIds |-> NoRow]
    /\ clock = 0
    /\ th = [t \in Threads |-> Idle]
    /\ credited = [p \in PaymentIds |-> 0]
    /\ applied = [u \in UserIds |-> 0]
    /\ used = [deliveries |-> 0, cycles |-> 0, invoices |-> 0, calls |-> 0, ticks |-> 0,
               requests |-> 0, decisions |-> 0, switches |-> 0, lookups |-> 0]
    /\ withdrawals = [w \in WithdrawalIds |-> NoWithdrawal]
    /\ deals = [d \in DealIds |-> NoDeal]
    /\ monitor = [running |-> FALSE, loop |-> [m \in LoopThreads |-> "none"]]

\* ------------------------------------------------------- storage helpers

\* the write of a transaction that read before another connection wrote
\* fails with sqlite3.OperationalError (database is locked), which the
\* except clauses turn into ROLLBACK and return False
WriteConflictNever(s) == FALSE
WriteConflict(s) == s.txn = "stale"

\* a committed write by thread t: every other open read transaction is stale
Doom(f, t) ==
    [x \in Threads |->
        IF x # t /\ f[x].txn = "read" THEN [f[x] EXCEPT !.txn = "stale"] ELSE f[x]]

\* the thread's function returns r to the outside and logs note: the frame
\* is dropped
Return(s, r, note) ==
    [Idle EXCEPT !.ret = IF r THEN "true" ELSE "false", !.note = note]

\* _check_single_payment is over: the monitor goes on with its batch, or
\* sleeps when the batch is empty; force_check_payment returns True
CheckDone(s) ==
    IF s.op = "poll"
    THEN IF s.batch = <<>>
         THEN Idle
         ELSE [Idle EXCEPT !.op = "poll", !.pc = "check",
                           !.existing = Head(s.batch),
                           !.payment_id = Head(s.batch).payment_id,
                           !.batch = Tail(s.batch)]
    ELSE Return(s, TRUE, "checked")

\* the value a call returned, as the caller's frame remembers it (history:
\* reject_withdrawal and resolve_dispute drop the value)
Result(r) == IF r THEN "true" ELSE "false"

\* if update_balance(user_id, -amount) and add_withdrawal_history(...)
DebitOkAlways(r) == TRUE
DebitOk(r) == r

\* process_webhook: if update_balance(user_id, amount) ... else return False
CreditOkAlways(r) == TRUE
CreditOk(r) == r

\* the caller's code after update_balance returned r
UbReturn(s0, r, note) ==
    LET s == [s0 EXCEPT !.txn = "none"] IN
    CASE s.op = "webhook" ->
            IF CreditOk(r) THEN Return(s, TRUE, "credited")
            ELSE Return(s, FALSE, "credit failed")
      [] s.op \in {"poll", "force_check"} -> CheckDone(s)
      [] s.op = "withdraw" ->
            IF DebitOk(r) THEN [s EXCEPT !.pc = "wd_insert"]
            ELSE Return(s, FALSE, "failed")
      [] s.op = "reject" -> [s EXCEPT !.pc = "wd_mark", !.got = Result(r)]
      [] s.op = "deal" -> Return(s, TRUE, "deal created")
      [] s.op = "resolve" -> [s EXCEPT !.pc = "deal_mark", !.got = Result(r)]
      [] OTHER -> Return(s, r, note)

\* the call update_balance(user_id, amount)
CallUpdateBalance(s, user_id, amount) ==
    [s EXCEPT !.pc = "ub_begin", !.uid = user_id, !.amount = amount]

\* the credit of a confirmed payment, from the caller's copy of the row
CreditConfirmed(s) ==
    IF Truthy(s.existing.user_id) /\ Truthy(s.existing.amount)
    THEN CallUpdateBalance(s, s.existing.user_id, s.existing.amount)
    ELSE IF s.op = "webhook" THEN Return(s, FALSE, "missing fields") ELSE CheckDone(s)

\* if payment_status == "confirmed", if new_status == "confirmed"
ReachedConfirmedAlways(st) == TRUE
ReachedConfirmed(st) == st = "confirmed"

\* the caller's code after update_payment_status returned r
UpsReturn(s0, r) ==
    LET s == [s0 EXCEPT !.txn = "none"] IN
    CASE s.op = "webhook" ->
            IF ~r THEN Return(s, FALSE, "update failed")
            ELSE IF ReachedConfirmed(s.status) THEN CreditConfirmed(s)
            ELSE Return(s, TRUE, "processed")
      [] s.op \in {"poll", "force_check"} ->
            IF ReachedConfirmed(s.status) THEN CreditConfirmed(s) ELSE CheckDone(s)
      [] OTHER -> Return(s, r, "updated")

\* ------------------------------------------------------ update_balance

\* if new_balance < 0
OverdrawNever(cur, amount) == FALSE
Overdraw(cur, amount) == cur + amount < 0

\* BEGIN TRANSACTION, SELECT balance, and the test of the new balance
UbBegin(t) ==
    LET s == th[t] IN
    /\ s.pc = "ub_begin"
    /\ th' = [th EXCEPT ![t] =
                IF s.uid \notin users
                THEN [s EXCEPT !.pc = "ub_insert", !.txn = "read"]
                ELSE IF Overdraw(balance[s.uid], s.amount)
                     THEN UbReturn(s, FALSE, "negative")
                     ELSE [s EXCEPT !.pc = "ub_write", !.txn = "read",
                                    !.cur = balance[s.uid]]]
    /\ UNCHANGED <<users, balance, payments, clock, monitor, credited, applied, used, withdrawals, deals>>

\* INSERT INTO users (user_id, balance), or UPDATE users SET balance; COMMIT
UbWrite(t) ==
    LET s == th[t] IN
    /\ s.pc \in {"ub_insert", "ub_write"}
    /\ IF WriteConflict(s)
       THEN /\ th' = [th EXCEPT ![t] = UbReturn(s, FALSE, "locked")]
            /\ UNCHANGED <<users, balance, credited, applied, withdrawals, deals>>
       ELSE /\ users' = users \cup {s.uid}
            /\ balance' = [balance EXCEPT ![s.uid] =
                            IF s.pc = "ub_insert" THEN s.amount ELSE s.cur + s.amount]
            /\ applied' = [applied EXCEPT ![s.uid] = @ + s.amount]
            /\ credited' = IF s.op \in {"webhook", "poll", "force_check"}
                           THEN [credited EXCEPT ![s.payment_id] = @ + s.amount]
                           ELSE credited
            /\ withdrawals' = IF s.op = "reject"
                              THEN [withdrawals EXCEPT ![s.key].refunded = @ + 1]
                              ELSE withdrawals
            /\ deals' = IF s.op = "resolve" /\ s.amount > 0
                        THEN [deals EXCEPT ![s.key].refunded = @ + 1]
                        ELSE deals
            /\ th' = [Doom(th, t) EXCEPT ![t] =
                        UbReturn(s, TRUE, IF s.pc = "ub_insert" THEN "created" ELSE "adjusted")]
    /\ UNCHANGED <<payments, clock, monitor, used>>

\* a direct call update_balance(u, d): the tests, admin.update_user_balance
StartUpdateBalance(t, u, d) ==
    /\ th[t].op = "idle"
    /\ th' = [th EXCEPT ![t] =
                CallUpdateBalance([Idle EXCEPT !.op = "update_balance"], u, d)]
    /\ used' = [used EXCEPT !.calls = @ + 1]
    /\ UNCHANGED <<users, balance, payments, clock, monitor, credited, applied, withdrawals, deals>>

\* ------------------------------------------------- update_payment_status

\* validation, BEGIN TRANSACTION, SELECT id, status
UpsBegin(t) ==
    LET s == th[t]
        row == payments[s.payment_id]
    IN
    /\ s.pc = "ups_begin"
    /\ th' = [th EXCEPT ![t] =
                IF s.status \notin valid_statuses THEN UpsReturn(s, FALSE)
                ELSE IF ~row.present THEN UpsReturn(s, FALSE)
                ELSE IF row.status = s.status THEN UpsReturn(s, TRUE)
                ELSE [s EXCEPT !.pc = "ups_write", !.txn = "read"]]
    /\ UNCHANGED <<users, balance, payments, clock, monitor, credited, applied, used, withdrawals, deals>>

\* UPDATE payments SET status, updated_at; COMMIT
UpsWrite(t) ==
    LET s == th[t] IN
    /\ s.pc = "ups_write"
    /\ IF WriteConflict(s)
       THEN /\ th' = [th EXCEPT ![t] = UpsReturn(s, FALSE)]
            /\ UNCHANGED payments
       ELSE /\ payments' = [payments EXCEPT ![s.payment_id].status = s.status,
                                            ![s.payment_id].updated_at = clock]
            /\ th' = [Doom(th, t) EXCEPT ![t] = UpsReturn(s, TRUE)]
    /\ UNCHANGED <<users, balance, clock, monitor, credited, applied, used, withdrawals, deals>>

\* ------------------------------------------------------------ add_payment

\* the caller's code after add_payment returned r: create_invoice returns
\* the invoice or raises PaymentError
ApReturn(s, r, note) ==
    IF s.op = "create_invoice"
    THEN IF r THEN Return(s, TRUE, "invoice") ELSE Return(s, FALSE, "PaymentError")
    ELSE Return(s, r, note)

ValidPaymentArgs(pid, u, a) == pid # "" /\ Truthy(u) /\ Truthy(a) /\ a > 0

\* validation and SELECT id FROM payments WHERE payment_id = ?
StartAddPayment(t, pid, u, a) ==
    /\ th[t].op = "idle"
    /\ th' = [th EXCEPT ![t] =
                IF ~ValidPaymentArgs(pid, u, a) THEN Return(Idle, FALSE, "invalid")
                ELSE IF payments[pid].present THEN Return(Idle, TRUE, "exists")
                ELSE [Idle EXCEPT !.op = "add_payment", !.pc = "ap_insert",
                                  !.payment_id = pid, !.uid = u, !.amount = a]]
    /\ used' = [used EXCEPT !.invoices = @ + 1]
    /\ UNCHANGED <<users, balance, payments, clock, monitor, credited, applied, withdrawals, deals>>

\* BEGIN TRANSACTION, INSERT INTO payments, COMMIT; payment_id is UNIQUE
ApInsert(t) ==
    LET s == th[t] IN
    /\ s.pc = "ap_insert"
    /\ IF payments[s.payment_id].present
       THEN /\ th' = [th EXCEPT ![t] = ApReturn(s, FALSE, "integrity")]
            /\ UNCHANGED payments
       ELSE /\ payments' = [payments EXCEPT ![s.payment_id] =
                    [present |-> TRUE, payment_id |-> s.payment_id, user_id |-> s.uid,
                     amount |-> s.amount, status |-> "pending",
                     created_at |-> clock, updated_at |-> clock]]
            /\ th' = [Doom(th, t) EXCEPT ![t] = ApReturn(s, TRUE, "added")]
    /\ UNCHANGED <<users, balance, clock, monitor, credited, applied, used, withdrawals, deals>>

\* --------------------------------------------------------- create_invoice

max_retries == 3

\* what one requests.post gives: a status code with its body, or an
\* exception; RequestException stands for the classes of requests.exceptions
\* other than Timeout and ConnectionError (TooManyRedirects, InvalidURL,
\* InvalidHeader, ChunkedEncodingError, ...)
RequestOutcomes ==
    {"200 valid", "200 invalid", "200 not json", "400", "401", "403", "429", "500",
     "Timeout", "ConnectionError", "RequestException"}

\* the exception of response.json() on a body that is not JSON: a
\* RequestException with the releases of requests that define
\* requests.exceptions.JSONDecodeError, a ValueError with the older ones
JsonErrors == {"RequestException", "ValueError"}

\* the branches that sleep and continue while attempt < max_retries - 1
Retried(o, cls) ==
    \/ o \in {"429", "500", "Timeout", "ConnectionError", "RequestException"}
    \/ o = "200 not json" /\ cls = "RequestException"

\* create_invoice(amount, user_id) begins: attempt 0 of range(max_retries)
StartCreateInvoice(t, u, a) ==
    /\ th[t].op = "idle"
    /\ th' = [th EXCEPT ![t] =
                [Idle EXCEPT !.op = "create_invoice", !.pc = "ci_request",
                             !.uid = u, !.amount = a]]
    /\ used' = [used EXCEPT !.invoices = @ + 1]
    /\ UNCHANGED <<users, balance, payments, clock, monitor, credited, applied, withdrawals, deals>>

\* one pass of the for loop: requests.post answers o, a valid answer names
\* payment pid; cls is the class of the error of response.json().  The
\* message of the PaymentError tells the answer; got is the answer before a
\* retry (history)
CiRequest(t, o, pid, cls) ==
    LET s == th[t] IN
    /\ s.pc = "ci_request"
    /\ th' = [th EXCEPT ![t] =
                IF o = "200 valid"
                THEN IF ~ValidPaymentArgs(pid, s.uid, s.amount)
                     THEN ApReturn(s, FALSE, "invalid")
                     ELSE IF payments[pid].present THEN ApReturn(s, TRUE, "exists")
                     ELSE [s EXCEPT !.pc = "ap_insert", !.payment_id = pid]
                ELSE IF Retried(o, cls) /\ s.attempt < max_retries - 1
                     THEN [s EXCEPT !.attempt = @ + 1, !.got = o]
                     ELSE Return(s, FALSE, o)]
    /\ UNCHANGED <<users, balance, payments, clock, monitor, credited, applied, used,
                   withdrawals, deals>>

\* ----------------------------------------------------- NowPaymentsAdapter

\* what data.get(key) gives for a key that is absent, or whose value is null
None == "<None>"
\* the values a field of a notification may carry
FieldValues == {None, "", "a", "b"}
\* the parsed notifications: legacy fields payment_id and payment_status,
\* current fields id and status, any of them absent, empty or filled
Payloads ==
    [payment_id : FieldValues, id : FieldValues,
     payment_status : FieldValues, status : FieldValues]

\* the truth value of a string or None in a condition
NonEmpty(x) == x # None /\ x # ""

\* x or y
OrElseSecond(x, y) == y
OrElse(x, y) == IF NonEmpty(x) THEN x ELSE y

\* extract_payment_id(data)
extract_payment_id(data) ==
    LET payment_id == OrElse(data.payment_id, data.id) IN
    IF NonEmpty(payment_id) THEN payment_id ELSE None

\* extract_payment_status(data)
extract_payment_status(data) ==
    LET status == OrElse(data.payment_status, data.status) IN
    IF NonEmpty(status) THEN status ELSE None

\* validate_webhook_payload(data): (is_valid, payment_id, payment_status)
validate_webhook_payload(data) ==
    LET payment_id == extract_payment_id(data)
        payment_status == extract_payment_status(data)
    IN
    IF ~NonEmpty(payment_id) \/ ~NonEmpty(payment_status)
    THEN [is_valid |-> FALSE, payment_id |-> None, payment_status |-> None]
    ELSE [is_valid |-> TRUE, payment_id |-> payment_id, payment_status |-> payment_status]

\* a caller hands the notification in its frame (rec) to
\* validate_webhook_payload and keeps what it returns
ValidatePayload(t) ==
    LET v == validate_webhook_payload(th[t].rec) IN
    /\ th[t].op = "idle" /\ th[t].ret = "none"
    /\ th[t].rec \in Payloads
    /\ th' = [th EXCEPT ![t] =
                [@ EXCEPT !.payment_id = v.payment_id, !.status = v.payment_status,
                          !.ret = IF v.is_valid THEN "true" ELSE "false"]]
    /\ UNCHANGED <<users, balance, payments, clock, monitor, credited, applied, used,
                   withdrawals, deals>>

\* -------------------------------------------------------- process_webhook

\* if not existing_payment
PaymentMissingNever(row) == FALSE
PaymentMissing(row) == ~row.present

\* if existing_payment.get("status") == payment_status
IsDuplicateNever(row, st) == FALSE
IsDuplicate(row, st) == row.status = st

\* a delivery arrives; ok says whether the signature verifies and the
\* payload parses to an identifier and a status.  Then
\* existing_payment = get_payment_by_id(payment_id) and the duplicate test
StartWebhook(t, pid, st, ok) ==
    LET row == payments[pid]
        s == [Idle EXCEPT !.op = "webhook", !.payment_id = pid, !.status = st]
    IN
    /\ th[t].op = "idle"
    /\ th' = [th EXCEPT ![t] =
                IF ~ok THEN Return(s, FALSE, "invalid")
                ELSE IF PaymentMissing(row) THEN Return(s, FALSE, "not found")
                ELSE IF IsDuplicate(row, st) THEN Return(s, TRUE, "duplicate")
                ELSE [s EXCEPT !.pc = "ups_begin", !.existing = row]]
    /\ used' = [used EXCEPT !.deliveries = @ + 1]
    /\ UNCHANGED <<users, balance, payments, clock, monitor, credited, applied, withdrawals, deals>>

\* ------------------------------------------------------ webhook endpoint

\* WEBHOOK_SECRET as the deployment may set it; "" is no secret configured
Secrets == {"", "k1"}
\* the keys a sender may sign with
Keys == {"k1", "k2"}

\* request bodies: no body, text that is not JSON, and the JSON notification
\* that a payment is confirmed
EmptyBody == [kind |-> "empty", payment_id |-> "", payment_status |-> ""]
GarbageBody == [kind |-> "garbage", payment_id |-> "", payment_status |-> ""]
JsonBodies ==
    {[kind |-> "json", payment_id |-> p, payment_status |-> st] :
        p \in PaymentIds, st \in {"confirmed"}}
Bodies == {EmptyBody, GarbageBody} \cup JsonBodies

\* hmac.new(key, payload, sha512).hexdigest(): the digest stands for the
\* key and the text it was made of, no two of them collide
Hmac(key, payload) == <<key, payload>>

\* request.headers.get('x-nowpayments-sig') when the header is absent or empty
NoSignature == <<>>
Signatures == {NoSignature} \cup {Hmac(k, b) : k \in Keys, b \in JsonBodies}

\* hmac.compare_digest(signature, expected_signature)
compare_digestAlways(a, b) == TRUE
compare_digest(a, b) == a = b

verify_webhook_signature(secret, payload, signature) ==
    IF secret = "" THEN TRUE ELSE compare_digest(signature, Hmac(secret, payload))

\* the answer of the endpoint to a request whose handling ended in frame f
HttpStatus(f) == IF f.ret = "true" THEN 200 ELSE 400

\* POST /webhook/nowpayments: the body and the header are looked at first,
\* then process_webhook verifies the signature, parses the body and goes on
\* as StartWebhook
nowpayments_webhook(t, payload, signature, secret) ==
    LET refuse(note) ==
            /\ th[t].op = "idle"
            /\ th' = [th EXCEPT ![t] = Return(Idle, FALSE, note)]
            /\ used' = [used EXCEPT !.deliveries = @ + 1]
            /\ UNCHANGED <<users, balance, payments, clock, monitor, credited, applied,
                           withdrawals, deals>>
    IN
    IF payload = EmptyBody THEN refuse("empty payload")
    ELSE IF signature = NoSignature THEN refuse("no signature")
    ELSE IF ~verify_webhook_signature(secret, payload, signature)
         THEN refuse("invalid signature")
    ELSE StartWebhook(t, payload.payment_id, payload.payment_status,
                      payload.kind = "json")

\* -------------------------------------------------------- payment monitor

PendingIds == {p \in PaymentIds : payments[p].present /\ payments[p].status = "pending"}

\* ORDER BY created_at DESC; rows of equal created_at come in any order
PendingOrders ==
    {q \in [1..Cardinality(PendingIds) -> PendingIds] :
        /\ \A i, j \in DOMAIN q : i # j => q[i] # q[j]
        /\ \A i, j \in DOMAIN q :
              i < j => payments[q[i]].created_at >= payments[q[j]].created_at}

\* _check_pending_payments() on loop thread m: get_pending_payments()
MonFetchOn(m) ==
    /\ th[m].op = "idle"
    /\ \E q \in PendingOrders :
         th' = [th EXCEPT ![m] =
                  CheckDone([Idle EXCEPT !.op = "poll",
                                         !.batch = [i \in DOMAIN q |-> payments[q[i]]]])]
    /\ used' = [used EXCEPT !.cycles = IF @ < MaxCycles THEN @ + 1 ELSE @]
    /\ UNCHANGED <<users, balance, payments, clock, credited, applied, withdrawals, deals>>

\* one cycle of a running _monitor_loop begins
MonFetch == MonFetchOn(Monitor) /\ UNCHANGED monitor

\* force_check_payment(payment_id): get_payment_by_id, then the same check
StartForceCheck(t, pid) ==
    LET row == payments[pid] IN
    /\ th[t].op = "idle"
    /\ th' = [th EXCEPT ![t] =
                IF PaymentMissing(row) THEN Return(Idle, FALSE, "not found")
                ELSE [Idle EXCEPT !.op = "force_check", !.pc = "check",
                                  !.payment_id = pid, !.existing = row]]
    /\ used' = [used EXCEPT !.cycles = @ + 1]
    /\ UNCHANGED <<users, balance, payments, clock, monitor, credited, applied, withdrawals, deals>>

\* verify_payment raised: except PaymentError, except Exception; the error
\* is logged and the check of this payment is over
CheckFailedAbort(s) == Return(s, FALSE, "aborted")
CheckFailed(s) == CheckDone(s)

\* the difference, in hours, between the local time of the process and UTC
UtcOffsets == {-5, 0, 6}

\* datetime.now(created_time.tzinfo) - created_time > timedelta(hours=24):
\* created_at is the CURRENT_TIMESTAMP of SQLite, which is UTC and carries no
\* zone, so tzinfo is None and datetime.now(None) is the local time
TooOldNever(row, off) == FALSE
TooOld(row, off) == (clock + off) - row.created_at > ExpiryHours

\* _check_single_payment(payment) up to its call of update_payment_status;
\* resp is what verify_payment gets from the processor, off the offset of
\* the local time
CheckSingleAt(t, resp, off) ==
    LET s == th[t] IN
    /\ s.pc = "check"
    /\ th' = [th EXCEPT ![t] =
                IF TooOld(s.existing, off)
                THEN [s EXCEPT !.pc = "ups_begin", !.status = "expired"]
                ELSE IF resp = "error" THEN CheckFailed(s)
                ELSE IF resp # s.existing.status
                     THEN [s EXCEPT !.pc = "ups_begin", !.status = resp]
                     ELSE CheckDone(s)]
    /\ UNCHANGED <<users, balance, payments, clock, monitor, credited, applied, used, withdrawals, deals>>

\* the check in a process whose local time is UTC
CheckSingle(t, resp) == CheckSingleAt(t, resp, 0)

\* ------------------------------------------------ monitor start and stop

\* while self.running
LoopGoesAlways(running) == TRUE
LoopGoes(running) == running

\* the thread that threading.Thread(target=self._monitor_loop) creates
FreshLoop ==
    IF monitor.loop[Monitor] \in {"none", "exited"} THEN Monitor ELSE Monitor2

\* start(): nothing when the flag is set; else the flag is set and a loop
\* thread is created and started
MonitorStart ==
    /\ monitor.running \/ monitor.loop[FreshLoop] \in {"none", "exited"}
    /\ monitor' = IF monitor.running THEN monitor
                  ELSE [running |-> TRUE,
                        loop |-> [monitor.loop EXCEPT ![FreshLoop] = "test"]]
    /\ used' = [used EXCEPT !.switches = @ + 1]
    /\ UNCHANGED <<users, balance, payments, clock, th, credited, applied, withdrawals, deals>>

\* stop(): the flag is cleared; join(timeout=5) waits for at most 5 seconds
MonitorStop ==
    /\ monitor' = [monitor EXCEPT !.running = FALSE]
    /\ used' = [used EXCEPT !.switches = @ + 1]
    /\ UNCHANGED <<users, balance, payments, clock, th, credited, applied, withdrawals, deals>>

\* _monitor_loop on thread m: the test of while self.running
LoopTest(m) ==
    /\ monitor.loop[m] = "test"
    /\ monitor' = [monitor EXCEPT !.loop[m] =
                     IF LoopGoes(monitor.running) THEN "cycle" ELSE "exited"]
    /\ UNCHANGED <<users, balance, payments, clock, th, credited, applied, used,
                   withdrawals, deals>>

\* _monitor_loop on thread m: self._check_pending_payments() begins
LoopFetch(m) ==
    /\ monitor.loop[m] = "cycle"
    /\ MonFetchOn(m)
    /\ monitor' = [monitor EXCEPT !.loop[m] = "sleep"]

\* _monitor_loop on thread m: the batch is done and time.sleep() is over
LoopWake(m) ==
    /\ monitor.loop[m] = "sleep"
    /\ th[m].op = "idle"
    /\ monitor' = [monitor EXCEPT !.loop[m] = "test"]
    /\ UNCHANGED <<users, balance, payments, clock, th, credited, applied, used,
                   withdrawals, deals>>

\* --------------------------------------------------------------- get_user

\* get_user(u): SELECT * FROM users WHERE user_id = ?; the row is returned
\* when there is one (cur is the balance in the returned row)
StartGetUser(t, u) ==
    /\ th[t].op = "idle"
    /\ th' = [th EXCEPT ![t] =
                IF u \in users
                THEN [Return(Idle, TRUE, "found") EXCEPT !.cur = balance[u]]
                ELSE [Idle EXCEPT !.op = "get_user", !.pc = "gu_insert", !.uid = u]]
    /\ used' = [used EXCEPT !.lookups = @ + 1]
    /\ UNCHANGED <<users, balance, payments, clock, monitor, credited, applied, withdrawals, deals>>

\* INSERT INTO users (user_id), commit, and the second SELECT; user_id is the
\* PRIMARY KEY, and the IntegrityError of a second INSERT makes get_user
\* return None
GuInsert(t) ==
    LET s == th[t] IN
    /\ s.pc = "gu_insert"
    /\ IF s.uid \in users
       THEN /\ th' = [th EXCEPT ![t] = Return(s, FALSE, "integrity")]
            /\ UNCHANGED <<users, balance>>
       ELSE /\ users' = users \cup {s.uid}
            /\ balance' = [balance EXCEPT ![s.uid] = 0]
            /\ th' = [Doom(th, t) EXCEPT ![t] =
                        [Return(s, TRUE, "created") EXCEPT !.cur = 0]]
    /\ UNCHANGED <<payments, clock, monitor, credited, applied, used, withdrawals, deals>>

\* ------------------------------------------------------------ withdrawals

\* c.lastrowid of an INSERT into a table with AUTOINCREMENT and no deletes
NextId(tbl) == Cardinality({i \in DOMAIN tbl : tbl[i].present}) + 1

\* validate_amount(text, min_amount, max_amount)
ValidRequest(a, min_amount, max_amount) == a >= min_amount /\ a <= max_amount

\* handle_withdraw up to its call of update_balance: validate_amount,
\* get_user (which inserts the user's row when there is none) and the test
\* amount > user['balance']
StartWithdraw(t, u, a) ==
    /\ th[t].op = "idle"
    /\ IF ~ValidRequest(a, MinWithdrawal, a)
       THEN /\ th' = [th EXCEPT ![t] = Return(Idle, FALSE, "invalid")]
            /\ UNCHANGED users
       ELSE /\ users' = users \cup {u}
            /\ th' = [(IF u \in users THEN th ELSE Doom(th, t)) EXCEPT ![t] =
                        IF a > balance[u]
                        THEN Return(Idle, FALSE, "insufficient")
                        ELSE CallUpdateBalance([Idle EXCEPT !.op = "withdraw"], u, -a)]
    /\ used' = [used EXCEPT !.requests = @ + 1]
    /\ UNCHANGED <<balance, payments, clock, monitor, credited, applied, withdrawals, deals>>

\* add_withdrawal_history(user_id, amount): INSERT, commit
WdInsert(t) ==
    LET s == th[t] IN
    /\ s.pc = "wd_insert"
    /\ withdrawals' = [withdrawals EXCEPT ![NextId(withdrawals)] =
                          [present |-> TRUE, user_id |-> s.uid, amount |-> -s.amount,
                           status |-> "pending", refunded |-> 0]]
    /\ th' = [Doom(th, t) EXCEPT ![t] = Return(s, TRUE, "submitted")]
    /\ UNCHANGED <<users, balance, payments, clock, monitor, credited, applied, used, deals>>

\* add_withdrawal_history when the INSERT or the connection raises: the except
\* clause returns False and handle_withdraw answers "Failed to process
\* withdrawal request"; nothing is written
WdInsertFails(t) ==
    LET s == th[t] IN
    /\ s.pc = "wd_insert"
    /\ th' = [th EXCEPT ![t] = Return(s, FALSE, "insert failed")]
    /\ UNCHANGED <<users, balance, payments, clock, monitor, credited, applied, used,
                   withdrawals, deals>>

\* if withdrawal['status'] != 'pending'
NotPendingNever(row) == FALSE
NotPending(row) == row.status # "pending"

\* approve_withdrawal(withdrawal_id): SELECT, the tests, UPDATE, commit
StartApprove(t, w) ==
    LET row == withdrawals[w] IN
    /\ th[t].op = "idle"
    /\ IF ~row.present
       THEN /\ th' = [th EXCEPT ![t] = Return(Idle, FALSE, "not found")]
            /\ UNCHANGED withdrawals
       ELSE IF NotPending(row)
       THEN /\ th' = [th EXCEPT ![t] = Return(Idle, FALSE, "not pending")]
            /\ UNCHANGED withdrawals
       ELSE /\ withdrawals' = [withdrawals EXCEPT ![w].status = "approved"]
            /\ th' = [Doom(th, t) EXCEPT ![t] = Return(Idle, TRUE, "approved")]
    /\ used' = [used EXCEPT !.decisions = @ + 1]
    /\ UNCHANGED <<users, balance, payments, clock, monitor, credited, applied, deals>>

\* reject_withdrawal(withdrawal_id) up to its call of update_balance:
\* SELECT and the tests
StartReject(t, w) ==
    LET row == withdrawals[w] IN
    /\ th[t].op = "idle"
    /\ th' = [th EXCEPT ![t] =
                IF ~row.present THEN Return(Idle, FALSE, "not found")
                ELSE IF NotPending(row) THEN Return(Idle, FALSE, "not pending")
                ELSE CallUpdateBalance([Idle EXCEPT !.op = "reject", !.key = w, !.rec = row,
                                                    !.arg = "rejected"],
                                       row.user_id, row.amount)]
    /\ used' = [used EXCEPT !.decisions = @ + 1]
    /\ UNCHANGED <<users, balance, payments, clock, monitor, credited, applied, withdrawals, deals>>

\* approve_withdrawal(withdrawal_id) up to its UPDATE, for calls that run
\* next to other decisions: SELECT and the tests
StartApproveSelect(t, w) ==
    LET row == withdrawals[w] IN
    /\ th[t].op = "idle"
    /\ th' = [th EXCEPT ![t] =
                IF ~row.present THEN Return(Idle, FALSE, "not found")
                ELSE IF NotPending(row) THEN Return(Idle, FALSE, "not pending")
                ELSE [Idle EXCEPT !.op = "approve", !.pc = "wd_mark", !.key = w,
                                  !.rec = row, !.arg = "approved"]]
    /\ used' = [used EXCEPT !.decisions = @ + 1]
    /\ UNCHANGED <<users, balance, payments, clock, monitor, credited, applied, withdrawals, deals>>

\* reject_withdrawal after update_balance, approve_withdrawal after its
\* tests: UPDATE withdrawal_history SET status, commit
WdMark(t) ==
    LET s == th[t] IN
    /\ s.pc = "wd_mark"
    /\ withdrawals' = [withdrawals EXCEPT ![s.key].status = s.arg]
    /\ th' = [Doom(th, t) EXCEPT ![t] = Return(s, TRUE, s.arg)]
    /\ UNCHANGED <<users, balance, payments, clock, monitor, credited, applied, used, deals>>

\* ------------------------------------------------------------------ deals

\* status TEXT DEFAULT 'waiting'
InitialDealStatusActive == "active"
InitialDealStatus == "waiting"

\* the row INSERT INTO deals (buyer_id, seller_username, description, amount)
\* creates; the other columns take their defaults
DealRow(buyer_id, seller_username, description, amount) ==
    [present |-> TRUE, buyer_id |-> buyer_id, seller_username |-> seller_username,
     description |-> description, amount |-> amount, status |-> InitialDealStatus,
     completed_at |-> -1, refunded |-> 0]

\* create_deal(buyer_id, seller_username, description, amount): INSERT,
\* commit; the id of the new row is returned (key)
CreateDeal(t, buyer_id, seller_username, description, amount) ==
    LET d == NextId(deals) IN
    /\ th[t].op = "idle"
    /\ d \in DealIds
    /\ deals' = [deals EXCEPT ![d] = DealRow(buyer_id, seller_username, description, amount)]
    /\ th' = [Doom(th, t) EXCEPT ![t] = [Return(Idle, TRUE, "deal") EXCEPT !.key = d]]
    /\ used' = [used EXCEPT !.requests = @ + 1]
    /\ UNCHANGED <<users, balance, payments, clock, monitor, credited, applied, withdrawals>>

\* get_user_deals(user_id): SELECT * FROM deals WHERE buyer_id = ?, as the
\* set of the ids of the rows in table tbl
get_user_deals(tbl, user_id) ==
    {d \in DealIds : tbl[d].present /\ tbl[d].buyer_id = user_id}

\* handle_deal_amount up to its call of update_balance: get_user (which
\* inserts the user's row when there is none), validate_amount, the test
\* amount > balance, and create_deal (INSERT, commit)
StartDeal(t, u, a) ==
    LET d == NextId(deals)
        created == IF u \in users THEN th ELSE Doom(th, t)
    IN
    /\ th[t].op = "idle"
    /\ users' = users \cup {u}
    /\ IF ~ValidRequest(a, MinDealAmount, MaxDealAmount)
       THEN /\ th' = [created EXCEPT ![t] = Return(Idle, FALSE, "invalid")]
            /\ UNCHANGED deals
       ELSE IF a > balance[u]
       THEN /\ th' = [created EXCEPT ![t] = Return(Idle, FALSE, "insufficient")]
            /\ UNCHANGED deals
       ELSE /\ deals' = [deals EXCEPT ![d] = DealRow(u, "@s1", "d1", a)]
            /\ th' = [Doom(th, t) EXCEPT ![t] =
                        CallUpdateBalance([Idle EXCEPT !.op = "deal", !.key = d], u, -a)]
    /\ used' = [used EXCEPT !.requests = @ + 1]
    /\ UNCHANGED <<balance, payments, clock, monitor, credited, applied, withdrawals>>

\* update_deal_status(deal_id, status): UPDATE ... WHERE id = ?, commit
StartUpdateDealStatus(t, d, st) ==
    /\ th[t].op = "idle"
    /\ deals' = IF deals[d].present THEN [deals EXCEPT ![d].status = st] ELSE deals
    /\ th' = [Doom(th, t) EXCEPT ![t] = Return(Idle, TRUE, "deal updated")]
    /\ used' = [used EXCEPT !.decisions = @ + 1]
    /\ UNCHANGED <<users, balance, payments, clock, monitor, credited, applied, withdrawals>>

\* if deal['status'] != 'disputed'
NotDisputedNever(row) == FALSE
NotDisputed(row) == row.status # "disputed"

\* the ledger movement of a resolution: refund_buyer credits the buyer with
\* the amount, pay_seller debits the buyer by the amount
NoMovement(row, resolution) == 0
Movement(row, resolution) == IF resolution = "refund_buyer" THEN row.amount ELSE -row.amount

\* resolve_dispute(deal_id, resolution) up to its call of update_balance:
\* SELECT and the tests
StartResolve(t, d, resolution) ==
    LET row == deals[d] IN
    /\ th[t].op = "idle"
    /\ th' = [th EXCEPT ![t] =
                IF ~row.present THEN Return(Idle, FALSE, "not found")
                ELSE IF NotDisputed(row) THEN Return(Idle, FALSE, "not disputed")
                ELSE IF resolution \notin {"refund_buyer", "pay_seller"}
                     THEN Return(Idle, FALSE, "invalid resolution")
                ELSE CallUpdateBalance(
                        [Idle EXCEPT !.op = "resolve", !.key = d, !.rec = row,
                                     !.arg = IF resolution = "refund_buyer"
                                             THEN "cancelled" ELSE "completed"],
                        row.buyer_id, Movement(row, resolution))]
    /\ used' = [used EXCEPT !.decisions = @ + 1]
    /\ UNCHANGED <<users, balance, payments, clock, monitor, credited, applied, withdrawals, deals>>

\* resolve_dispute after update_balance: UPDATE deals SET status,
\* completed_at; commit
DealMark(t) ==
    LET s == th[t] IN
    /\ s.pc = "deal_mark"
    /\ deals' = [deals EXCEPT ![s.key].status = s.arg,
                              ![s.key].completed_at =
                                    IF s.arg = "completed" THEN clock ELSE -1]
    /\ th' = [Doom(th, t) EXCEPT ![t] = Return(s, TRUE, "resolved")]
    /\ UNCHANGED <<users, balance, payments, clock, monitor, credited, applied, used, withdrawals>>

\* ------------------------------------------------------------ maintenance

\* WHERE status IN ('confirmed', 'failed') AND updated_at < thirty_days_ago
Archivable(row) ==
    /\ row.present
    /\ row.status \in {"confirmed", "failed"}
    /\ row.updated_at < clock - ArchiveDays * 24

\* WHERE status = 'completed' AND completed_at < thirty_days_ago
ArchivableDeal(row) ==
    /\ row.present
    /\ row.status = "completed"
    /\ row.completed_at < clock - ArchiveDays * 24

\* cleanup_old_data(): one connection, one commit
CleanupOldData ==
    /\ payments' = [p \in PaymentIds |->
                      IF Archivable(payments[p])
                      THEN [payments[p] EXCEPT !.status = "archived"]
                      ELSE payments[p]]
    /\ deals' = [d \in DealIds |->
                   IF ArchivableDeal(deals[d])
                   THEN [deals[d] EXCEPT !.status = "archived"]
                   ELSE deals[d]]
    /\ th' = Doom(th, "admin")
    /\ UNCHANGED <<users, balance, clock, monitor, credited, applied, used, withdrawals>>

\* time passes
Tick(d) ==
    /\ clock' = clock + d
    /\ used' = [used EXCEPT !.ticks = @ + 1]
    /\ UNCHANGED <<users, balance, payments, th, credited, applied, withdrawals, deals, monitor>>

\* --------------------------------------------------------- specifications

Quiet == \A t \in Threads : th[t].op = "idle"

\* the steps of the calls in progress
Steps ==
    \/ \E t \in Threads : UpsBegin(t)
    \/ \E t \in Threads : UpsWrite(t)
    \/ \E t \in Threads : UbBegin(t)
    \/ \E t \in Threads : UbWrite(t)
    \/ \E t \in Workers : ApInsert(t)

\* Reconciliation with everything concurrent: two webhook/invoice threads
\* and the monitor.
Next ==
    \/ /\ used.deliveries < MaxDeliveries
       /\ \E t \in Workers, pid \in PaymentIds, st \in ReportedStatuses, ok \in BOOLEAN :
              StartWebhook(t, pid, st, ok)
    \/ /\ used.invoices < MaxInvoices
       /\ \E t \in Workers, pid \in PaymentIds, u \in UserIds, a \in Amounts :
              StartAddPayment(t, pid, u, a)
    \/ /\ used.cycles < MaxCycles
       /\ MonFetch
    \/ \E t \in Threads, resp \in RemoteResponses : CheckSingle(t, resp)
    \/ Steps

Spec == Init /\ [][Next]_vars

\* The race of the two notification paths: one webhook thread and the
\* monitor; every delivery and every answer of the processor says confirmed.
NextRace ==
    \/ /\ used.deliveries < MaxDeliveries
       /\ \E pid \in PaymentIds : StartWebhook("t1", pid, "confirmed", TRUE)
    \/ /\ used.invoices < MaxInvoices
       /\ \E t \in Workers, pid \in PaymentIds, u \in UserIds, a \in Amounts :
              StartAddPayment(t, pid, u, a)
    \/ /\ used.cycles < MaxCycles
       /\ MonFetch
    \/ \E t \in Threads : CheckSingle(t, "confirmed")
    \/ Steps

SpecRace == Init /\ [][NextRace]_vars

\* One call at a time: deliveries, invoices, forced checks and monitor
\* cycles follow each other.
NextSeq ==
    \/ /\ Quiet
       /\ used.deliveries < SeqDeliveries
       /\ \E pid \in PaymentIds, st \in ReportedStatuses, ok \in BOOLEAN :
              StartWebhook("t1", pid, st, ok)
    \/ /\ Quiet
       /\ used.invoices < MaxInvoices
       /\ \E pid \in PaymentIds, u \in UserIds, a \in Amounts :
              StartAddPayment("t1", pid, u, a)
    \/ /\ Quiet
       /\ used.cycles < MaxCycles
       /\ \E pid \in PaymentIds : StartForceCheck("t1", pid)
    \/ /\ Quiet
       /\ used.cycles < MaxCycles
       /\ MonFetch
    \/ \E t \in Threads, resp \in RemoteResponses : CheckSingle(t, resp)
    \/ Steps

SpecSeq == Init /\ [][NextSeq]_vars

\* The life of a payment record: the calls of NextSeq, and between them time
\* passes and the maintenance routine runs.  Time that passes before the
\* first record exists changes nothing, only ages matter.
NextLife ==
    \/ NextSeq
    \/ /\ Quiet
       /\ CleanupOldData
    \/ /\ Quiet
       /\ used.ticks < MaxTicks
       /\ \E p \in PaymentIds : payments[p].present
       /\ \E d \in TickHours : Tick(d)

SpecLife == Init /\ [][NextLife]_vars

\* The ledger alone: concurrent direct calls of update_balance.
NextLedger ==
    \/ /\ used.calls < MaxCalls
       /\ \E t \in Workers, u \in UserIds, d \in Deltas : StartUpdateBalance(t, u, d)
    \/ \E t \in Workers : UbBegin(t)
    \/ \E t \in Workers : UbWrite(t)

SpecLedger == Init /\ [][NextLedger]_vars

\* Racing invoices: two threads call add_payment and deliver notifications
\* at the same time.
NextInvoice ==
    \/ /\ used.invoices < MaxAdds
       /\ \E t \in Workers, pid \in PaymentIds, u \in UserIds, a \in Amounts :
              StartAddPayment(t, pid, u, a)
    \/ /\ used.deliveries < MaxDeliveries
       /\ \E t \in Workers, pid \in PaymentIds, st \in ReportedStatuses :
              StartWebhook(t, pid, st, TRUE)
    \/ Steps

SpecInvoice == Init /\ [][NextInvoice]_vars

\* Withdrawals: two bot threads take deposits and withdrawal requests while
\* the admin decides the requests on record.
NextWithdraw ==
    \/ /\ used.calls < MaxCredits
       /\ \E t \in Workers, u \in UserIds : StartUpdateBalance(t, u, 50)
    \/ /\ used.requests < MaxWithdrawals
       /\ \E t \in Workers, u \in UserIds, a \in Requests : StartWithdraw(t, u, a)
    \/ /\ used.decisions < MaxDecisions
       /\ \E w \in WithdrawalIds : StartApprove(Admin, w)
    \/ /\ used.decisions < MaxDecisions
       /\ \E w \in WithdrawalIds : StartReject(Admin, w)
    \/ \E t \in Threads : UbBegin(t)
    \/ \E t \in Threads : UbWrite(t)
    \/ \E t \in Workers : WdInsert(t)
    \/ WdMark(Admin)

SpecWithdraw == Init /\ [][NextWithdraw]_vars

\* Racing deals: two bot threads take a deposit and create deals at the
\* same time.
NextDeal ==
    \/ /\ used.calls < MaxCredits
       /\ \E t \in Workers, u \in UserIds : StartUpdateBalance(t, u, 100)
    \/ /\ used.requests < MaxDeals
       /\ \E t \in Workers, u \in UserIds, a \in Requests : StartDeal(t, u, a)
    \/ \E t \in Workers : UbBegin(t)
    \/ \E t \in Workers : UbWrite(t)

SpecDeal == Init /\ [][NextDeal]_vars

\* The life of a deal, one call at a time: a deposit, the creation of deals,
\* changes of status and the admin's resolutions follow each other.
NextDealSeq ==
    \/ /\ Quiet
       /\ used.calls < MaxCredits
       /\ \E u \in UserIds : StartUpdateBalance("t1", u, 100)
    \/ /\ Quiet
       /\ used.requests < MaxDeals
       /\ \E u \in UserIds, a \in Requests : StartDeal("t1", u, a)
    \/ /\ Quiet
       /\ used.decisions < MaxDecisions
       /\ \E d \in DealIds, st \in DealStatuses : StartUpdateDealStatus(Admin, d, st)
    \/ /\ Quiet
       /\ used.decisions < MaxDecisions
       /\ \E d \in DealIds, r \in Resolutions : StartResolve(Admin, d, r)
    \/ \E t \in Threads : UbBegin(t)
    \/ \E t \in Threads : UbWrite(t)
    \/ DealMark(Admin)

SpecDealSeq == Init /\ [][NextDealSeq]_vars

\* the endpoint, one request at a time, each signed with any key or not at
\* all, in a deployment with or without a secret
NextHttp ==
    \/ /\ Quiet
       /\ used.invoices < MaxInvoices
       /\ \E pid \in PaymentIds, u \in UserIds, a \in Amounts :
              StartAddPayment("t1", pid, u, a)
    \/ /\ Quiet
       /\ used.deliveries < MaxDeliveries
       /\ \E t \in Workers, b \in Bodies, sg \in Signatures, k \in Secrets :
              nowpayments_webhook(t, b, sg, k)
    \/ Steps

SpecHttp == Init /\ [][NextHttp]_vars


\* the endpoint under concurrent requests
NextEndpoint ==
    \/ /\ used.invoices < MaxInvoices
       /\ \E t \in Workers, pid \in PaymentIds, u \in UserIds, a \in Amounts :
              StartAddPayment(t, pid, u, a)
    \/ /\ used.deliveries < MaxDeliveries
       /\ \E t \in Workers, b \in Bodies, sg \in Signatures, k \in Secrets :
              nowpayments_webhook(t, b, sg, k)
    \/ Steps

SpecEndpoint == Init /\ [][NextEndpoint]_vars

\* the poller and time, one call at a time, in any time zone
NextExpiry ==
    \/ /\ Quiet
       /\ used.invoices < MaxInvoices
       /\ \E pid \in PaymentIds, u \in UserIds, a \in Amounts :
              StartAddPayment("t1", pid, u, a)
    \/ /\ Quiet
       /\ used.cycles < MaxCycles
       /\ \E pid \in PaymentIds : StartForceCheck("t1", pid)
    \/ /\ Quiet
       /\ used.cycles < MaxCycles
       /\ MonFetch
    \/ /\ Quiet
       /\ used.ticks < MaxTicks
       /\ \E p \in PaymentIds : payments[p].present
       /\ \E d \in TickHours : Tick(d)
    \/ \E t \in Threads, resp \in RemoteResponses, off \in UtcOffsets :
          CheckSingleAt(t, resp, off)
    \/ Steps

SpecExpiry == Init /\ [][NextExpiry]_vars

\* the monitor object: start(), stop() and the loop threads, over payments
\* added before the first start()
NextMonitor ==
    \/ /\ used.invoices < MaxInvoices
       /\ used.switches = 0
       /\ \E pid \in PaymentIds : StartAddPayment("t1", pid, 1, 50)
    \/ /\ used.switches < MaxSwitches
       /\ th["t1"].op = "idle"
       /\ MonitorStart
    \/ /\ used.switches < MaxSwitches
       /\ MonitorStop
    \/ \E m \in LoopThreads :
          /\ monitor.running => used.cycles < MaxCycles
          /\ LoopTest(m)
    \/ \E m \in LoopThreads : LoopFetch(m)
    \/ \E m \in LoopThreads : LoopWake(m)
    \/ \E m \in LoopThreads, resp \in {"confirmed", "error"} : CheckSingle(m, resp)
    \/ Steps

\* every step loop thread m can take
LoopStep(m) ==
    \/ /\ monitor.running => used.cycles < MaxCycles
       /\ LoopTest(m)
    \/ LoopFetch(m)
    \/ LoopWake(m)
    \/ \E resp \in {"confirmed", "error"} : CheckSingle(m, resp)
    \/ UpsBegin(m) \/ UpsWrite(m) \/ UbBegin(m) \/ UbWrite(m)

SpecMonitor == Init /\ [][NextMonitor]_vars

\* a loop thread that can take a step is scheduled
SpecMonitorFair == SpecMonitor /\ \A m \in LoopThreads : WF_vars(LoopStep(m))

\* get_user on concurrent threads, next to direct calls of update_balance
NextUsers ==
    \/ /\ used.lookups < MaxLookups
       /\ \E t \in Workers, u \in UserIds : StartGetUser(t, u)
    \/ /\ used.calls < MaxCalls
       /\ \E t \in Workers, u \in UserIds, d \in Deltas : StartUpdateBalance(t, u, d)
    \/ \E t \in Workers : GuInsert(t)
    \/ \E t \in Workers : UbBegin(t)
    \/ \E t \in Workers : UbWrite(t)

SpecUsers == Init /\ [][NextUsers]_vars

\* create_deal called directly on concurrent threads
NextCreateDeal ==
    \E t \in Workers, b \in UserIds, sl \in Sellers, ds \in Descriptions, a \in Requests :
        CreateDeal(t, b, sl, ds, a)

SpecCreateDeal == Init /\ [][NextCreateDeal]_vars

\* Deliveries of confirmations on the handler threads; while one is handled
\* the admin adjusts the balance of its user (admin.update_user_balance calls
\* update_balance), at most once for every delivery
NextCreditFails ==
    \/ /\ used.invoices < MaxInvoices /\ Quiet
       /\ \E pid \in PaymentIds : StartAddPayment("t1", pid, 1, 50)
    \/ /\ used.deliveries < MaxDeliveries
       /\ \E t \in Workers, pid \in PaymentIds : StartWebhook(t, pid, "confirmed", TRUE)
    \/ /\ used.calls < MaxCalls /\ used.calls < used.deliveries
       /\ \E t \in Workers, d \in Deltas :
              /\ th[t].op = "webhook"
              /\ StartUpdateBalance(Admin, th[t].existing.user_id, d)
    \/ Steps

SpecCreditFails == Init /\ [][NextCreditFails]_vars

\* Waiting on a payment: invoices are stored, then time passes and the
\* monitor runs cycle after cycle, in which verify_payment fails or reports
\* the payment as pending still
NextWaiting ==
    \/ /\ used.invoices < MaxInvoices
       /\ used.ticks = 0
       /\ \E pid \in PaymentIds, u \in UserIds : StartAddPayment("t1", pid, u, 50)
    \/ ApInsert("t1")
    \/ /\ used.ticks < MaxTicks /\ th["t1"].op = "idle"
       /\ \E p \in PaymentIds : payments[p].present
       /\ \E d \in TickHours : Tick(d)
    \/ MonFetch
    \/ \E resp \in {"error", "pending"}, off \in UtcOffsets : CheckSingleAt(Monitor, resp, off)
    \/ UpsBegin(Monitor)
    \/ UpsWrite(Monitor)

SpecWaiting == Init /\ [][NextWaiting]_vars

\* a call in progress goes on, the monitor's thread is scheduled, its cycles
\* follow each other, and time passes
SpecWaitingFair ==
    /\ SpecWaiting
    /\ WF_vars(ApInsert("t1"))
    /\ WF_vars(MonFetch)
    /\ WF_vars(\E resp \in {"error", "pending"}, off \in UtcOffsets :
                  CheckSingleAt(Monitor, resp, off))
    /\ WF_vars(UpsBegin(Monitor))
    /\ WF_vars(UpsWrite(Monitor))
    /\ WF_vars(/\ used.ticks < MaxTicks /\ th["t1"].op = "idle"
               /\ \E p \in PaymentIds : payments[p].present
               /\ \E d \in TickHours : Tick(d))

\* One cycle over a batch: invoices are stored, then the monitor fetches the
\* pending payments and checks them one after the other; verify_payment
\* answers confirmed or fails
NextBatch ==
    \/ /\ used.invoices < MaxAdds
       /\ used.cycles = 0
       /\ Quiet
       /\ \E pid \in PaymentIds, u \in UserIds : StartAddPayment("t1", pid, u, 50)
    \/ ApInsert("t1")
    \/ /\ used.cycles < MaxCycles
       /\ th["t1"].op = "idle"
       /\ MonFetch
    \/ \E resp \in {"confirmed", "error"} : CheckSingle(Monitor, resp)
    \/ UpsBegin(Monitor)
    \/ UpsWrite(Monitor)
    \/ UbBegin(Monitor)
    \/ UbWrite(Monitor)

SpecBatch == Init /\ [][NextBatch]_vars

\* start() and stop() called again and again while the loop threads run
\* their cycles: NextMonitor without its limit on the cycles
NextRestart ==
    \/ /\ used.invoices < MaxInvoices
       /\ used.switches = 0
       /\ \E pid \in PaymentIds : StartAddPayment("t1", pid, 1, 50)
    \/ /\ used.switches < MaxSwitches
       /\ th["t1"].op = "idle"
       /\ MonitorStart
    \/ /\ used.switches < MaxSwitches
       /\ MonitorStop
    \/ \E m \in LoopThreads : LoopTest(m)
    \/ \E m \in LoopThreads : LoopFetch(m)
    \/ \E m \in LoopThreads : LoopWake(m)
    \/ \E m \in LoopThreads, resp \in {"confirmed", "error"} : CheckSingle(m, resp)
    \/ Steps

SpecRestart == Init /\ [][NextRestart]_vars

\* create_invoice on the handler threads, against every answer of the
\* processor
NextCreateInvoice ==
    \/ /\ used.invoices < MaxInvoices
       /\ \E t \in Workers, u \in UserIds, a \in Amounts : StartCreateInvoice(t, u, a)
    \/ \E t \in Workers, o \in RequestOutcomes, pid \in PaymentIds, cls \in JsonErrors :
          CiRequest(t, o, pid, cls)
    \/ \E t \in Workers : ApInsert(t)

SpecCreateInvoice == Init /\ [][NextCreateInvoice]_vars

\* Decisions on two threads: a deposit and withdrawal requests one after the
\* other, then approve_withdrawal and reject_withdrawal next to each other
NextDecide ==
    \/ /\ used.calls < MaxCredits /\ Quiet
       /\ StartUpdateBalance("t1", 1, 50)
    \/ /\ used.requests < MaxWithdrawals /\ Quiet /\ used.decisions = 0
       /\ \E a \in Requests : StartWithdraw("t1", 1, a)
    \/ /\ used.decisions < MaxDecisions
       /\ \E t \in Workers, w \in WithdrawalIds : StartApproveSelect(t, w)
    \/ /\ used.decisions < MaxDecisions
       /\ \E t \in Workers, w \in WithdrawalIds : StartReject(t, w)
    \/ \E t \in Workers : UbBegin(t)
    \/ \E t \in Workers : UbWrite(t)
    \/ WdInsert("t1")
    \/ \E t \in Workers : WdMark(t)

SpecDecide == Init /\ [][NextDecide]_vars

\* a deposit, a deal that is created and disputed, then resolve_dispute
\* called from two threads
NextResolve ==
    \/ /\ used.calls < MaxCredits /\ Quiet
       /\ StartUpdateBalance("t1", 1, 100)
    \/ /\ used.requests < MaxDeals /\ Quiet /\ used.decisions = 0
       /\ \E a \in Requests : StartDeal("t1", 1, a)
    \/ /\ used.decisions = 0 /\ Quiet
       /\ \E d \in DealIds : deals[d].present /\ StartUpdateDealStatus(Admin, d, "disputed")
    \/ /\ used.decisions > 0 /\ used.decisions <= MaxDecisions
       /\ \E t \in Workers, d \in DealIds, r \in {"refund_buyer", "pay_seller"} :
              StartResolve(t, d, r)
    \/ \E t \in Workers : UbBegin(t)
    \/ \E t \in Workers : UbWrite(t)
    \/ \E t \in Workers : DealMark(t)

SpecResolve == Init /\ [][NextResolve]_vars

\* one operation at a time: a payment of user 1 is recorded and confirmed,
\* then withdrawals and deals of that user are requested and decided
NextFunds ==
    \/ /\ used.invoices < MaxInvoices /\ Quiet
       /\ \E pid \in PaymentIds : StartAddPayment("t1", pid, 1, 100)
    \/ /\ used.deliveries < SeqDeliveries /\ Quiet
       /\ \E pid \in PaymentIds : StartWebhook("t1", pid, "confirmed", TRUE)
    \/ /\ used.requests < MaxWithdrawals /\ Quiet
       /\ StartWithdraw("t1", 1, 50)
    \/ /\ used.requests < MaxDeals /\ Quiet
       /\ StartDeal("t1", 1, 50)
    \/ /\ used.decisions < MaxDecisions /\ Quiet
       /\ \E w \in WithdrawalIds : StartApprove(Admin, w)
    \/ /\ used.decisions < MaxDecisions /\ Quiet
       /\ \E w \in WithdrawalIds : StartReject(Admin, w)
    \/ /\ used.decisions < MaxDecisions /\ Quiet
       /\ \E d \in DealIds : deals[d].present /\ StartUpdateDealStatus(Admin, d, "disputed")
    \/ /\ used.decisions < MaxDecisions /\ Quiet
       /\ \E d \in DealIds, r \in {"refund_buyer", "pay_seller"} : StartResolve(Admin, d, r)
    \/ Steps
    \/ WdInsert("t1")
    \/ WdMark(Admin)
    \/ DealMark(Admin)

SpecFunds == Init /\ [][NextFunds]_vars

\* one request at a time: deposits and withdrawal requests whose INSERT
\* succeeds or fails
NextSubmit ==
    \/ /\ used.calls < MaxCredits /\ Quiet
       /\ \E u \in UserIds : StartUpdateBalance("t1", u, 100)
    \/ /\ used.requests < MaxWithdrawals /\ Quiet
       /\ \E u \in UserIds, a \in Requests : StartWithdraw("t1", u, a)
    \/ UbBegin("t1")
    \/ UbWrite("t1")
    \/ WdInsert("t1")
    \/ WdInsertFails("t1")

SpecSubmit == Init /\ [][NextSubmit]_vars

\* validate_webhook_payload applied to every notification of Payloads
InitAdapter ==
    \E data \in Payloads :
        /\ th = [t \in Threads |-> IF t = "t1" THEN [Idle EXCEPT !.rec = data] ELSE Idle]
        /\ users = {}
        /\ balance = [u \in UserIds |-> 0]
        /\ payments = [p \in PaymentIds |-> NoRow]
        /\ clock = 0
        /\ credited = [p \in PaymentIds |-> 0]
        /\ applied = [u \in UserIds |-> 0]
        /\ used = [deliveries |-> 0, cycles |-> 0, invoices |-> 0, calls |-> 0, ticks |-> 0,
                   requests |-> 0, decisions |-> 0, switches |-> 0, lookups |-> 0]
        /\ withdrawals = [w \in WithdrawalIds |-> NoWithdrawal]
        /\ deals = [d \in DealIds |-> NoDeal]
        /\ monitor = [running |-> FALSE, loop |-> [m \in LoopThreads |-> "none"]]

NextAdapter == ValidatePayload("t1")

SpecAdapter == InitAdapter /\ [][NextAdapter]_vars

\* ------------------------------------------------------------------ claims

\* C1: when the webhook path and the monitor path both report confirmed for
\* a pending payment, then once both are done the owner has been credited
\* the payment amount exactly once, whatever the interleaving.
C1_ExactlyOneCredit ==
    \A p \in PaymentIds :
        (Quiet /\ payments[p].present /\ payments[p].status = "confirmed")
            => credited[p] = payments[p].amount

\* C2: over any sequence of notifications, expiries and cleanups the amount
\* credited for a payment never exceeds the payment's amount.
C2_AtMostOneCredit ==
    \A p \in PaymentIds : credited[p] <= payments[p].amount

\* the first half of C3: a confirmed delivery that found the payment pending
\* and has run to its end returned True, the owner's balance grew by the
\* amount and the stored status is confirmed
C3_FirstCredits ==
    \A t \in Workers :
        LET s == th[t] IN
        (/\ s.op = "webhook" /\ s.status = "confirmed"
         /\ s.existing.status = "pending"
         /\ th'[t].op = "idle")
        => /\ th'[t].ret = "true"
           /\ s.existing.user_id \in users'
           /\ balance'[s.existing.user_id] = balance[s.existing.user_id] + s.existing.amount
           /\ payments'[s.payment_id].status = "confirmed"
\* the second half of C3: a confirmed delivery for a payment stored as
\* confirmed ends at once, returns True and changes no table
C3_SecondIsNoOp ==
    \A t \in Workers, pid \in PaymentIds :
        (/\ payments[pid].present /\ payments[pid].status = "confirmed"
         /\ StartWebhook(t, pid, "confirmed", TRUE))
        => /\ th'[t].op = "idle" /\ th'[t].ret = "true"
           /\ UNCHANGED <<users, balance, payments, credited>>
\* C3: a confirmed delivery for a pending payment credits the owner with the
\* amount and returns True; a second confirmed delivery, the stored status
\* being confirmed, returns True and changes nothing.
C3_DuplicateConfirmed == [][C3_FirstCredits /\ C3_SecondIsNoOp]_vars
\* both deliveries of C3 have happened: the second one was recognised as a
\* duplicate and the balance is the amount, once
C3_Witness ==
    \E p \in PaymentIds :
        /\ th["t1"].note = "duplicate"
        /\ used.deliveries = 2 /\ used.cycles = 0
        /\ payments[p].status = "confirmed"
        /\ balance[payments[p].user_id] = 50

\* C4: every stored balance is >= 0 in every reachable state.
C4_BalanceNonNegative == \A u \in UserIds : balance[u] >= 0

\* C5: a user's balance is the initial balance (0, no row) plus the sum of
\* the deltas of the update_balance calls that returned True.
C5_BalanceIsSumOfSuccesses == \A u \in UserIds : balance[u] = applied[u]
C5_Witness ==
    \E t \in Workers, u \in UserIds :
        /\ th[t].ret = "false" /\ th[t].note = "locked"
        /\ balance[u] = 100

C7_NoNegativeAccount ==
    [][\A t \in Workers :
          LET s == th[t] IN
          (/\ s.pc = "ub_insert" /\ th'[t] # s
           /\ s.uid \notin users /\ s.amount < 0)
          => /\ th'[t].ret = "false"
             /\ s.uid \notin users']_vars

\* C8: once a payment's status is confirmed, failed, cancelled or expired,
\* no step changes it to another status (archiving by the maintenance
\* routine set aside).
C8_TerminalIsFinal ==
    [][\A p \in PaymentIds :
          payments[p].status \in TerminalStatuses
              => payments'[p].status \in {payments[p].status, "archived"}]_vars

\* C9: a delivery whose status differs from the stored, terminal status is a
\* no-op that returns True: no step of it changes a payment or a balance.
C9_TerminalDeliveryIsNoOp ==
    [][\A t \in Workers :
          LET s == th[t] IN
          (/\ s.op = "webhook" /\ th'[t] # s
           /\ s.status \in valid_statuses
           /\ s.existing.status \in TerminalStatuses)
          => /\ UNCHANGED <<users, balance, payments>>
             /\ th'[t].op = "idle" => th'[t].ret = "true"]_vars

\* one half of C10: a record appears only in the INSERT of add_payment, with
\* status pending
C10_OnlyAddPaymentCreates ==
    \A p \in PaymentIds :
        (~payments[p].present /\ payments'[p].present)
            => \E t \in Workers :
                  /\ th[t].op = "add_payment" /\ th[t].payment_id = p
                  /\ th'[t].note = "added"
                  /\ payments'[p].status = "pending"
\* the other half of C10: a delivery or a forced check for an unknown
\* payment id ends at once, returns False and changes no table
C10_UnknownFails ==
    \A t \in Workers, pid \in PaymentIds :
        /\ \A st \in ReportedStatuses :
              (~payments[pid].present /\ StartWebhook(t, pid, st, TRUE))
                  => /\ th'[t].op = "idle" /\ th'[t].ret = "false"
                     /\ UNCHANGED <<users, balance, payments, credited>>
        /\ (~payments[pid].present /\ StartForceCheck(t, pid))
                  => /\ th'[t].op = "idle" /\ th'[t].ret = "false"
                     /\ UNCHANGED <<users, balance, payments, credited>>
\* C10: a delivery or a forced check for a payment id without a record
\* returns False and changes nothing, and a record appears only in the
\* INSERT of add_payment.
C10_UnknownPayment == [][C10_OnlyAddPaymentCreates /\ C10_UnknownFails]_vars
\* a delivery for an unknown id was refused while another payment, created
\* by add_payment, is on record
C10_Witness ==
    \E p \in PaymentIds :
        /\ th["t1"].ret = "false" /\ th["t1"].note = "not found"
        /\ used.deliveries > 0 /\ used.cycles = 0
        /\ payments[p].present

\* C11: a valid add_payment call for a payment_id that is already stored,
\* whether the record was there when the call began or was inserted by a
\* racing call before this call's own INSERT, returns True and leaves the
\* stored record as it is.
C11_AddPaymentIdempotent ==
    [][\A t \in Workers :
          LET s == th[t] IN
          /\ \A pid \in PaymentIds, u \in UserIds, a \in Amounts :
                (/\ payments[pid].present /\ ValidPaymentArgs(pid, u, a)
                 /\ StartAddPayment(t, pid, u, a))
                => /\ th'[t].op = "idle" /\ th'[t].ret = "true"
                   /\ payments' = payments
          /\ (/\ s.pc = "ap_insert" /\ th'[t] # s
              /\ payments[s.payment_id].present)
             => /\ th'[t].ret = "true"
                /\ payments' = payments]_vars

\* C12: a withdrawal request whose amount exceeds the user's balance, at the
\* first test or at any step of the debit (another request of the same user
\* may have been served in between), ends there with a refusal: no
\* withdrawal record is written and no balance changes.
C12_OverdrawnRequestRejected ==
    [][\A t \in Workers :
          LET s == th[t] IN
          /\ \A u \in UserIds, a \in Requests :
                (a > balance[u] /\ StartWithdraw(t, u, a))
                => /\ th'[t].op = "idle" /\ th'[t].ret = "false"
                   /\ UNCHANGED <<balance, withdrawals>>
          /\ (/\ s.op = "withdraw" /\ s.pc \in {"ub_begin", "ub_insert", "ub_write"}
              /\ th'[t] # s
              /\ balance[s.uid] + s.amount < 0)
             => /\ th'[t].op = "idle" /\ th'[t].ret = "false"
                /\ UNCHANGED <<balance, withdrawals>>]_vars
\* two requests of 50 against a balance of 50 passed the first test; one was
\* served and recorded, the other failed at the debit
C12_Witness ==
    \E t \in Workers, w \in WithdrawalIds :
        /\ th[t].op = "idle" /\ th[t].note = "failed"
        /\ used.requests = 2
        /\ withdrawals[w].present /\ withdrawals[w].amount = 50
        /\ balance[withdrawals[w].user_id] = 0
        /\ \A x \in WithdrawalIds : x # w => ~withdrawals[x].present

\* C13: the step that marks a withdrawal rejected comes after a refund that
\* was applied, the refund raises the owner's balance by exactly the
\* withdrawal's amount, and approving changes no balance.
C13_DecisionMovesBalance ==
    [][LET s == th[Admin] IN
       /\ WdMark(Admin) => s.got = "true"
       /\ (s.op = "reject" /\ UbWrite(Admin) /\ th'[Admin].got = "true")
             => balance' = [balance EXCEPT ![s.rec.user_id] = @ + s.rec.amount]
       /\ \A w \in WithdrawalIds :
             (withdrawals[w].status = "pending" /\ StartApprove(Admin, w))
             => /\ withdrawals'[w].status = "approved"
                /\ UNCHANGED balance]_vars

C15_NoDealWithoutDebit ==
    [][\A t \in Workers :
          LET s == th[t] IN
          (/\ s.op = "deal" /\ th'[t].op = "idle"
           /\ balance[s.uid] + s.amount < 0
           /\ balance'[s.uid] = balance[s.uid])
          => ~deals'[s.key].present]_vars

\* C16: creating a deal of amount X lowers the buyer's balance by exactly X
\* and leaves the deal waiting; resolving it, once disputed, with
\* refund_buyer raises the buyer's balance by exactly X and leaves the deal
\* cancelled: the two movements cancel.
C16_CreateRefundRoundTrip ==
    [][LET a == th[Admin] IN
       /\ \A t \in Workers :
             LET s == th[t] IN
             (s.op = "deal" /\ th'[t].op = "idle")
             => /\ balance' = [balance EXCEPT ![s.uid] = @ + s.amount]
                /\ deals'[s.key].status = "waiting"
                /\ deals'[s.key].amount = -s.amount
       /\ (a.op = "resolve" /\ a.arg = "cancelled" /\ UbWrite(Admin))
             => balance' = [balance EXCEPT ![a.rec.buyer_id] = @ + deals[a.key].amount]
       /\ (a.arg = "cancelled" /\ DealMark(Admin))
             => /\ a.got = "true"
                /\ deals'[a.key].status = "cancelled"
                /\ th'[Admin].ret = "true"]_vars
\* 100, deal of 50, dispute, refund: the balance is 100 again and the deal
\* is cancelled
C16_Witness ==
    /\ th[Admin].op = "idle" /\ th[Admin].note = "resolved"
    /\ used.calls = 1 /\ used.requests = 1 /\ used.decisions = 2
    /\ deals[1].status = "cancelled" /\ deals[1].amount = 50
    /\ balance[deals[1].buyer_id] = 100

\* C17: resolving a disputed deal with pay_seller leaves the deal completed
\* with a completion timestamp, and no step of the resolution changes a
\* balance.
C17_PaySellerMovesNothing ==
    [][LET a == th[Admin] IN
       /\ (a.op = "resolve" /\ a.arg = "completed" /\ th'[Admin] # a)
             => UNCHANGED balance
       /\ (a.arg = "completed" /\ DealMark(Admin))
             => /\ deals'[a.key].status = "completed"
                /\ deals'[a.key].completed_at = clock]_vars

\* C18: resolve_dispute called for a deal that is not disputed (or not on
\* record), or with a resolution other than refund_buyer and pay_seller,
\* returns False and changes no deal and no balance.
C18_ResolveOnlyDisputed ==
    [][\A d \in DealIds, r \in Resolutions :
          (/\ \/ deals[d].status # "disputed"
              \/ r \notin {"refund_buyer", "pay_seller"}
           /\ StartResolve(Admin, d, r))
          => /\ th'[Admin].op = "idle" /\ th'[Admin].ret = "false"
             /\ UNCHANGED <<deals, balance, users>>]_vars
\* a resolution was refused for a deal on record that is not disputed
C18_Witness ==
    \E d \in DealIds :
        /\ th[Admin].ret = "false" /\ th[Admin].note = "not disputed"
        /\ deals[d].present /\ deals[d].status \in {"waiting", "completed", "cancelled"}
        /\ balance[deals[d].buyer_id] = 100 - deals[d].amount

\* C19: no step moves a deal whose status is completed, cancelled or
\* archived into disputed.
C19_DisputeOnlyFromOpen ==
    [][\A d \in DealIds :
          (deals[d].present /\ deals[d].status \in {"completed", "cancelled", "archived"})
              => deals'[d].status # "disputed"]_vars

\* C20: a webhook request without a signature header, or whose signature is
\* not the HMAC-SHA512 of the body under the configured secret, is answered
\* with HTTP 400 in its first step, before any payment is read, and changes
\* no payment and no balance.
C20_BadSignatureRefused ==
    [][\A t \in Workers, b \in Bodies, sg \in Signatures, k \in Secrets :
          (/\ used'.deliveries = used.deliveries + 1
           /\ \A u \in Threads \ {t} : th'[u] = th[u]
           /\ \/ sg = NoSignature
              \/ k # "" /\ sg # Hmac(k, b)
           /\ nowpayments_webhook(t, b, sg, k))
          => /\ th'[t].op = "idle" /\ HttpStatus(th'[t]) = 400
             /\ th'[t].existing = NoRow
             /\ UNCHANGED <<payments, balance, users, credited, applied>>]_vars
\* one request was refused for its signature and one for the missing header
\* while a payment was waiting for its confirmation
C20_Witness ==
    /\ \E t \in Workers : th[t].ret = "false" /\ th[t].note = "invalid signature"
    /\ \E t \in Workers : th[t].ret = "false" /\ th[t].note = "no signature"
    /\ \E p \in PaymentIds : payments[p].present /\ payments[p].status = "pending"

\* the first half of C21: a request that the endpoint answers in its first
\* step gets 200 only as the duplicate of a stored status, and gets 400 when
\* its signature is bad, its body is not a notification or its payment is
\* not on record.
C21_FirstStep ==
    \A t \in Workers :
          (/\ th[t].op = "idle" /\ th'[t].op = "idle"
           /\ used'.deliveries = used.deliveries + 1
           /\ \A u \in Threads \ {t} : th'[u] = th[u])
          => \A b \in Bodies, sg \in Signatures, k \in Secrets :
                nowpayments_webhook(t, b, sg, k)
                => /\ HttpStatus(th'[t]) = 200
                        => /\ b \in JsonBodies
                           /\ verify_webhook_signature(k, b, sg)
                           /\ payments[b.payment_id].present
                           /\ payments[b.payment_id].status = b.payment_status
                   /\ (\/ sg = NoSignature
                       \/ ~verify_webhook_signature(k, b, sg)
                       \/ b \notin JsonBodies
                       \/ ~payments[b.payment_id].present)
                        => HttpStatus(th'[t]) = 400

\* the second half of C21: when update_payment_status has returned True to
\* the request the stored status is the reported one; a request that ends
\* after its first step gets 200 only with the update applied and, for a
\* confirmation, in the step that credits the amount; it gets 400 when the
\* update or the credit did not take place.
C21_LaterSteps ==
    \A t \in Workers :
          LET s == th[t]
              r == th'[t]
              pid == s.payment_id
              uid == s.existing.user_id
          IN
          (s.op = "webhook" /\ r # s)
          => /\ (s.pc \in {"ups_begin", "ups_write"}
                   /\ (r.pc = "ub_begin" \/ HttpStatus(r) = 200))
                  => payments'[pid].status = s.status
             /\ (r.op = "idle" /\ HttpStatus(r) = 200 /\ s.status = "confirmed")
                  => /\ s.pc \in {"ub_insert", "ub_write"}
                     /\ balance'[uid] = balance[uid] + s.existing.amount
             /\ (s.pc \in {"ups_begin", "ups_write"} /\ r.pc # "ups_write"
                   /\ payments'[pid].status # s.status)
                  => r.op = "idle" /\ HttpStatus(r) = 400
             /\ (s.pc \in {"ub_begin", "ub_insert", "ub_write"} /\ r.op = "idle"
                   /\ balance' = balance)
                  => HttpStatus(r) = 400

\* C21: the webhook endpoint answers 200 only when the reconciliation
\* succeeded (the status applied with the credit that was due, or the
\* notification recognised as a duplicate), and answers 400 on a bad
\* signature, a malformed body, an unknown payment, a failed update and a
\* failed credit.
C21_OkOnlyOnSuccess == [][C21_FirstStep /\ C21_LaterSteps]_vars
\* one request was answered 200 after its credit and another 400 after its
\* update had failed
C21_Witness ==
    /\ \E t \in Workers : th[t].ret = "true" /\ th[t].note = "credited"
    /\ \E t \in Workers : th[t].ret = "false" /\ th[t].note = "update failed"
    /\ \E p \in PaymentIds : payments[p].status = "confirmed" /\ credited[p] = payments[p].amount

\* C22: a check of a payment that is pending and was created more than 24
\* hours ago goes on to set it to expired whatever the processor answers;
\* that update sets the stored status to expired and changes no balance.
C22_StaleExpires ==
    [][\A t \in Threads :
          LET s == th[t]
              pid == s.payment_id
          IN
          /\ (/\ s.pc = "check" /\ th'[t] # s
              /\ payments[pid].status = "pending"
              /\ clock - payments[pid].created_at > ExpiryHours)
                => th'[t].pc = "ups_begin" /\ th'[t].status = "expired"
          /\ (/\ s.pc \in {"ups_begin", "ups_write"} /\ th'[t] # s
              /\ s.op \in {"poll", "force_check"} /\ s.status = "expired"
              /\ payments[pid].status = "pending")
                => /\ th'[t].pc = "ups_write" \/ payments'[pid].status = "expired"
                   /\ balance' = balance]_vars

\* the safety half of C23: while the flag is cleared no loop thread begins a
\* cycle, and a loop thread that tests the flag exits.
C23_NoNewCycle ==
    [][\A m \in LoopThreads :
          ~monitor.running
          => /\ monitor'.loop[m] = "cycle" => monitor.loop[m] = "cycle"
             /\ LoopTest(m) => monitor'.loop[m] = "exited"]_vars

\* the liveness half of C23: a loop thread that finds the flag cleared has
\* exited later on, unless start() has set the flag again.
C23_LoopExits ==
    \A m \in LoopThreads :
        (~monitor.running /\ monitor.loop[m] # "none")
            ~> (monitor.loop[m] = "exited" \/ monitor.running)

C24_StatusIsValid ==
    \A p \in PaymentIds : payments[p].present => payments[p].status \in valid_statuses

\* C25: get_user for an id without an account creates the account with
\* balance 0 and returns it; get_user for an id with an account returns it
\* and changes no balance; no step removes a user.
C25_LazyUsers ==
    [][/\ \A t \in Workers :
            (th[t].pc = "gu_insert" /\ th'[t] # th[t])
            => /\ th'[t].ret = "true" /\ th'[t].cur = 0
               /\ th[t].uid \in users' /\ balance'[th[t].uid] = 0
       /\ \A t \in Workers, u \in users :
            StartGetUser(t, u)
            => th'[t].ret = "true" /\ th'[t].cur = balance[u] /\ balance' = balance
       /\ users \subseteq users']_vars

\* C26: a deal returned by create_deal is stored with status waiting and
\* with the buyer, seller reference, description and amount that were
\* given, and get_user_deals lists it for that buyer.
C26_DealStartsWaiting ==
    [][\A t \in Workers, b \in UserIds, sl \in Sellers, ds \in Descriptions, a \in Requests :
          CreateDeal(t, b, sl, ds, a)
          => LET d == th'[t].key IN
             /\ th'[t].ret = "true" /\ d \in DealIds /\ ~deals[d].present
             /\ deals'[d].present /\ deals'[d].status = "waiting"
             /\ deals'[d].buyer_id = b /\ deals'[d].seller_username = sl
             /\ deals'[d].description = ds /\ deals'[d].amount = a
             /\ d \in get_user_deals(deals', b)
             /\ \A x \in DealIds \ {d} : deals'[x] = deals[x]]_vars
\* a buyer's second deal, with another seller and another amount than the
\* first, was created: both are listed and waiting
C26_Witness ==
    \E t \in Workers :
        /\ th[t].note = "deal" /\ th[t].key = 2
        /\ deals[2].status = "waiting" /\ deals[1].status = "waiting"
        /\ deals[2].seller_username # deals[1].seller_username
        /\ deals[2].amount # deals[1].amount
        /\ get_user_deals(deals, deals[2].buyer_id) = {1, 2}

\* C27: extract_payment_id gives payment_id when it carries a value and
\* otherwise id, extract_payment_status gives payment_status when it carries
\* a value and otherwise status (nothing when neither carries one), and
\* validate_webhook_payload reports valid exactly when an identifier and a
\* status were both extracted, and then returns them.
C27_LegacyFirst ==
    LET data == th["t1"].rec
        f == th["t1"]
        id == IF NonEmpty(data.payment_id) THEN data.payment_id
              ELSE IF NonEmpty(data.id) THEN data.id ELSE None
        st == IF NonEmpty(data.payment_status) THEN data.payment_status
              ELSE IF NonEmpty(data.status) THEN data.status ELSE None
    IN
    data \in Payloads
    => /\ extract_payment_id(data) = id
       /\ extract_payment_status(data) = st
       /\ f.ret # "none"
            => /\ f.ret = "true" <=> (id # None /\ st # None)
               /\ f.ret = "true" => f.payment_id = id /\ f.status = st
               /\ f.ret = "false" => f.payment_id = None /\ f.status = None
\* a notification of mixed shape was validated: its identifier came from the
\* current field, its status from the legacy field
C27_Witness ==
    LET data == th["t1"].rec IN
    /\ data \in Payloads
    /\ ~NonEmpty(data.payment_id) /\ NonEmpty(data.id)
    /\ NonEmpty(data.payment_status) /\ NonEmpty(data.status)
    /\ data.payment_status # data.status
    /\ th["t1"].ret = "true"
    /\ th["t1"].payment_id = data.id /\ th["t1"].status = data.payment_status

\* C28: of the callers of update_payment_status that saw the same status of
\* a payment before the transition, only one whose call changes the stored
\* status goes on to the credit: a caller enters update_balance directly
\* after update_payment_status only in the step that writes its status.
C28_OnlyWinnerCredits ==
    [][\A t \in Workers :
          LET s == th[t] IN
          (/\ s.op = "webhook"
           /\ s.pc \in {"ups_begin", "ups_write"}
           /\ th'[t].pc = "ub_begin")
          => /\ payments[s.payment_id].status = s.existing.status
             /\ payments'[s.payment_id].status = s.status]_vars

\* the first half of C29: a delivery whose update_balance ends without the
\* credit is answered False, and the step leaves the payment as it is,
\* confirmed.
C29_FailureStep ==
    \A t \in Workers :
        LET s == th[t] IN
        (/\ s.op = "webhook"
         /\ s.pc \in {"ub_begin", "ub_insert", "ub_write"}
         /\ th'[t].op = "idle"
         /\ credited'[s.payment_id] = credited[s.payment_id])
        => /\ th'[t].ret = "false"
           /\ payments[s.payment_id].status = "confirmed"
           /\ payments' = payments
           /\ balance' = balance

\* the second half of C29: a payment that is confirmed stays confirmed, and
\* a delivery of the confirmation that arrives when it is confirmed returns
\* True at once and changes neither a balance nor the payment.
C29_Redelivery ==
    \A pid \in PaymentIds :
        payments[pid].status = "confirmed"
        => /\ payments'[pid] = payments[pid]
           /\ \A t \in Workers :
                StartWebhook(t, pid, "confirmed", TRUE)
                => /\ th'[t].op = "idle" /\ th'[t].ret = "true"
                   /\ balance' = balance /\ credited' = credited

\* C29: when the credit fails after the payment was set to confirmed, the
\* reconciliation returns False and the stored status stays confirmed; a
\* later delivery of the same notification credits nothing.
C29_FailedCreditStaysConfirmed == [][C29_FailureStep /\ C29_Redelivery]_vars
\* the first delivery confirmed the payment and lost its credit to a balance
\* adjustment of the admin; the second, on the same thread, was a duplicate
C29_Witness ==
    /\ Quiet
    /\ used.deliveries = 2
    /\ th["t2"].ret = "none"
    /\ th["t1"].ret = "true" /\ th["t1"].note = "duplicate"
    /\ th[Admin].ret = "true"
    /\ \E p \in PaymentIds :
          /\ payments[p].status = "confirmed"
          /\ credited[p] = 0
          /\ balance[payments[p].user_id] # payments[p].amount

\* the first half of C30: the poller takes the decision of the webhook on
\* the status it is told: a status that differs from the stored one goes to
\* update_payment_status, the stored status again changes nothing.
C30_SameDecision ==
    \A t \in Threads :
        th[t].pc = "check"
        => \A resp \in ReportedStatuses :
              CheckSingle(t, resp)
              => IF IsDuplicate(th[t].existing, resp)
                 THEN th'[t].pc # "ups_begin"
                 ELSE th'[t].pc = "ups_begin" /\ th'[t].status = resp

\* the second half of C30: the poller goes on to the credit only in the step
\* in which its own update_payment_status writes confirmed.
C30_OwnTransition ==
    \A t \in Threads :
        LET s == th[t] IN
        (/\ s.op \in {"poll", "force_check"}
         /\ s.pc \in {"ups_begin", "ups_write"}
         /\ th'[t].pc = "ub_begin")
        => /\ payments[s.payment_id].status # "confirmed"
           /\ payments'[s.payment_id].status = "confirmed"

\* C30: the poller handles a reported status as process_webhook does, with
\* the same resulting status and the same balance change, and credits only
\* when its own transition to confirmed was applied.
C30_PollerAsWebhook == [][C30_SameDecision /\ C30_OwnTransition]_vars

\* C31: a cycle of the poller fetches every payment that is not in a
\* terminal status, the confirming ones as well as the pending ones.
C31_CycleTakesNonTerminal ==
    [][MonFetch
         => LET f == th'[Monitor]
                fetched == IF f.op = "poll"
                           THEN {f.payment_id} \cup {f.batch[i].payment_id : i \in DOMAIN f.batch}
                           ELSE {}
            IN \A p \in PaymentIds :
                  (payments[p].present /\ payments[p].status \notin TerminalStatuses)
                  => p \in fetched]_vars

\* C32: with the monitor's cycles running and time passing, a payment that
\* is pending and gets no status from the processor, every call of
\* verify_payment failing or reporting pending, is eventually expired.
C32_PendingEventuallyExpires ==
    \A p \in PaymentIds :
        (payments[p].present /\ payments[p].status = "pending")
        ~> (payments[p].status = "expired")
\* a payment was set to expired by a cycle, with nothing credited
C32_Witness ==
    \E p \in PaymentIds :
        /\ payments[p].status = "expired"
        /\ clock - payments[p].created_at > ExpiryHours
        /\ credited[p] = 0
        /\ used.cycles >= 1
        /\ th[Monitor].op = "idle"

\* C33: a check that fails changes nothing and does not end the cycle: the
\* monitor leaves a payment of its batch, after a failure as after a
\* success, only for the next payment of the batch, and when the batch is
\* empty it is ready for the next cycle.
C33_BatchGoesOn ==
    [][LET s == th[Monitor]
           r == th'[Monitor]
       IN
       /\ (s.pc = "check" /\ CheckSingle(Monitor, "error"))
            => (r.op = "idle" <=> s.batch = <<>>)
       /\ (s.op = "poll" /\ r # s)
            => \/ /\ r.op = "poll"
                  /\ r.payment_id = s.payment_id /\ r.batch = s.batch
               \/ /\ s.batch # <<>>
                  /\ r.op = "poll" /\ r.pc = "check"
                  /\ r.existing = Head(s.batch) /\ r.batch = Tail(s.batch)
               \/ /\ s.batch = <<>>
                  /\ r = Idle]_vars
\* the one cycle had two pending payments in its batch: the check of one
\* failed and left it pending, the other was confirmed and credited
C33_Witness ==
    /\ used.cycles = 1
    /\ th[Monitor] = Idle
    /\ \E p, q \in PaymentIds :
          /\ payments[p].present /\ payments[p].status = "pending"
          /\ payments[q].status = "confirmed" /\ credited[q] = payments[q].amount

\* C34: start() on a running monitor creates no loop thread, and at no time
\* are two loop threads of the monitor processing payments.
C34_SingleLoop ==
    /\ [][(monitor.running /\ MonitorStart) => monitor' = monitor]_vars
    /\ [](Cardinality({m \in LoopThreads : th[m].op = "poll"}) <= 1)

\* C35: one call of create_invoice sends at most max_retries requests; a
\* further request follows only a timeout, a connection failure, HTTP 429 or
\* HTTP 5xx; HTTP 401, HTTP 403 and a malformed response end the call with
\* PaymentError at once; a payment record is stored only after a valid 200
\* response.
C35_BoundedTransientRetries ==
    [][\A t \in Workers :
          LET s == th[t]
              r == th'[t]
          IN
          /\ s.pc = "ci_request"
               => /\ s.attempt < max_retries
                  /\ payments' = payments
                  /\ \A o \in RequestOutcomes, pid \in PaymentIds, cls \in JsonErrors :
                        CiRequest(t, o, pid, cls)
                        => /\ r.pc = "ci_request"
                                => /\ o \in {"Timeout", "ConnectionError", "429", "500"}
                                   /\ r.attempt = s.attempt + 1
                           /\ o \in {"401", "403", "200 invalid", "200 not json"}
                                => r.op = "idle" /\ r.ret = "false"
                           /\ r.pc = "ap_insert" => o = "200 valid"
          /\ (s.op = "create_invoice" /\ r.ret = "true")
               => payments'[s.payment_id].present]_vars

\* C36: a reconciliation of a status other than confirmed, by the webhook or
\* by the poller, never calls update_balance, and its steps change no
\* balance, no account and no payment record but its own.
C36_NoLedgerEffect ==
    /\ [](\A t \in Threads :
            (th[t].op \in {"webhook", "poll", "force_check"}
               /\ th[t].pc \in {"ub_begin", "ub_insert", "ub_write"})
            => th[t].status = "confirmed")
    /\ [][\A t \in Threads :
            LET s == th[t] IN
            (/\ s.op \in {"webhook", "poll", "force_check"}
             /\ s.pc \in {"ups_begin", "ups_write"}
             /\ s.status # "confirmed"
             /\ th'[t].pc # s.pc)
            => /\ balance' = balance /\ users' = users /\ credited' = credited
               /\ \A p \in PaymentIds \ {s.payment_id} : payments'[p] = payments[p]]_vars
\* a delivery moved a pending payment to confirming or failed and was
\* answered True; no account exists and nothing was credited
C36_Witness ==
    \E p \in PaymentIds :
        /\ payments[p].status \in {"confirming", "failed"}
        /\ th["t1"].ret = "true" /\ th["t1"].note = "processed"
        /\ users = {}
        /\ credited[p] = 0

\* C37: whatever the interleaving of approve_withdrawal and
\* reject_withdrawal on a withdrawal, its amount is refunded at most once,
\* and a withdrawal that is approved when no decision on it is in progress
\* has not been refunded.
C37_OneDecision ==
    \A w \in WithdrawalIds :
        /\ withdrawals[w].refunded <= 1
        /\ (/\ withdrawals[w].status = "approved"
            /\ \A t \in Threads : ~(th[t].op \in {"approve", "reject"} /\ th[t].key = w))
           => withdrawals[w].refunded = 0

\* C38: whatever the interleaving of resolve_dispute calls on one disputed
\* deal, the buyer is refunded at most once, and a deal that ends completed,
\* with no resolution of it still running, has not been refunded
C38_OneResolution ==
    \A d \in DealIds :
        /\ deals[d].refunded <= 1
        /\ (/\ deals[d].status = "completed"
            /\ \A t \in Threads : ~(th[t].op = "resolve" /\ th[t].key = d))
           => deals[d].refunded = 0

\* the sum of the amounts of the rows ids of a table
C39_Total(rows, ids) ==
    LET sum[S \in SUBSET ids] ==
            IF S = {} THEN 0
            ELSE LET x == CHOOSE y \in S : TRUE IN rows[x].amount + sum[S \ {x}]
    IN sum[ids]

\* what the records say a user holds: credited confirmed payments, less the
\* withdrawals pending or approved, less the deals not cancelled
C39_Funds(u) ==
    C39_Total(payments, {p \in PaymentIds : /\ payments[p].present
                                            /\ payments[p].user_id = u
                                            /\ payments[p].status = "confirmed"
                                            /\ credited[p] > 0})
    - C39_Total(withdrawals, {w \in WithdrawalIds : /\ withdrawals[w].present
                                                    /\ withdrawals[w].user_id = u
                                                    /\ withdrawals[w].status \in {"pending", "approved"}})
    - C39_Total(deals, {d \in DealIds : /\ deals[d].present
                                        /\ deals[d].buyer_id = u
                                        /\ deals[d].status \in {"waiting", "active", "disputed", "completed"}})

\* C39: with no operation in progress, each user's balance is the sum of the
\* user's credited confirmed payments, less the user's pending and approved
\* withdrawals, less the user's waiting, active, disputed and completed deals
C39_FundsConserved == Quiet => \A u \in UserIds : balance[u] = C39_Funds(u)

\* handle_withdraw of thread t finishes in this step
C40_Finishes(t) == th[t].op = "withdraw" /\ th'[t].op = "idle"

\* the balance is the one update_balance read, less the requested amount
C40_Debited(t) == balance'[th[t].uid] = th[t].cur + th[t].amount

\* a pending record of the requested amount is new in withdrawal_history
C40_Recorded(t) ==
    \E w \in WithdrawalIds :
        /\ ~withdrawals[w].present
        /\ withdrawals'[w].present
        /\ withdrawals'[w].user_id = th[t].uid
        /\ withdrawals'[w].amount = -th[t].amount
        /\ withdrawals'[w].status = "pending"

\* C40: when handle_withdraw finishes, the balance has been debited by the
\* requested amount exactly when a pending record of that amount was
\* created, also when the INSERT of the record fails after the debit
C40_SubmissionAtomic ==
    [][C40_Finishes("t1") => (C40_Debited("t1") <=> C40_Recorded("t1"))]_vars
====
